---- MODULE Spec2Model ----
(***************************************************************************)
(* Model of the request normalization code of                              *)
(* src/routes/chat-completions/handler.ts: tool-id sanitization, tool-call *)
(* sequence repair, model-name translation, context-limit lookup and the   *)
(* context truncation module.                                              *)
(*                                                                         *)
(* Strings whose characters matter (tool ids, function names, model names) *)
(* are sequences of one-character strings.  A message content is a record  *)
(* [kind, tool_name, len, images]: which text it is, how many characters   *)
(* of text it has and, for a content made of typed parts, how many         *)
(* image_url parts (the code only looks at the length of a content, or     *)
(* copies it).  An absent tool_calls or tool_call_id is the empty          *)
(* sequence: the code tests both for truthiness only.                      *)
(***************************************************************************)
EXTENDS Integers, Sequences, FiniteSets, TLC

VARIABLES
    pc,           \* position of the request in the computation
    messages,     \* payload.messages, the inbound conversation
    sanitized,    \* result of sanitizeToolIdsInMessages(messages)
    fixIn,        \* argument of the last fixToolCallsMessages call
    fixed,        \* its result
    refixed,      \* fixToolCallsMessages(fixed)
    model,        \* payload.model
    translated,   \* translateModelName(model)
    limitArg,     \* argument of the last getModelContextLimit call
    contextLimit, \* its result
    targetTokens, \* optional third argument of truncateMessagesSmart
    truncation,   \* the TruncationResult
    payload,      \* the payload handed to createChatCompletions
    trace,        \* the calls handleCompletion has made, in order
    response,     \* what createChatCompletions resolves to
    requested,    \* fragments the for-await loop has asked the response for
    received,     \* fragments the response has yielded
    writing,      \* fragments handed to stream.writeSSE, write not yet completed
    written,      \* fragments whose stream.writeSSE has completed
    replied       \* bodies sent with c.json

pipeVars == <<payload, trace>>

relayVars == <<response, requested, received, writing, written, replied>>

vars == <<pc, messages, sanitized, fixIn, fixed, refixed, model, translated,
          limitArg, contextLimit, targetTokens, truncation, pipeVars, relayVars>>

Null == "null"

\* an optional number is <<>> (undefined) or <<n>>
NoTarget == <<>>

\* the request has not reached the upstream call
NoPipeline == payload = Null /\ trace = <<>>

NoRelay ==
    /\ response = Null /\ requested = 0
    /\ received = <<>> /\ writing = <<>> /\ written = <<>> /\ replied = <<>>

(***************************************************************************)
(* Bounds of the model.                                                    *)
(***************************************************************************)
\* messages in a conversation, tool calls in a conversation
MaxMsgs == 3
MaxCalls == 2

(***************************************************************************)
(* Generic sequence helpers.                                               *)
(***************************************************************************)
SeqsUpTo(S, n) == UNION {[1..k -> S] : k \in 0..n}

Range(s) == {s[i] : i \in 1..Len(s)}

RECURSIVE Flatten(_)
Flatten(ss) == IF ss = <<>> THEN <<>> ELSE Head(ss) \o Flatten(Tail(ss))

RECURSIVE SumSeq(_)
SumSeq(s) == IF s = <<>> THEN 0 ELSE Head(s) + SumSeq(Tail(s))

(***************************************************************************)
(* Characters.  /[^\w-]/ without the u flag keeps exactly [A-Za-z0-9_-].   *)
(***************************************************************************)
LowerChars == {"a","b","c","d","e","f","g","h","i","j","k","l","m",
               "n","o","p","q","r","s","t","u","v","w","x","y","z"}
UpperChars == {"A","B","C","D","E","F","G","H","I","J","K","L","M",
               "N","O","P","Q","R","S","T","U","V","W","X","Y","Z"}
DigitChars == {"0","1","2","3","4","5","6","7","8","9"}
WordOrDash == LowerChars \cup UpperChars \cup DigitChars \cup {"_", "-"}

(***************************************************************************)
(* Messages.                                                               *)
(***************************************************************************)
PlainText(n) == [kind |-> "text", tool_name |-> <<>>, len |-> n, images |-> 0]

\* a content array: text parts of n characters in all, k image_url parts
Parts(n, k) == [kind |-> "parts", tool_name |-> <<>>, len |-> n, images |-> k]

Msg(r, c, tcs, tid) ==
    [role |-> r, content |-> c, tool_calls |-> tcs, tool_call_id |-> tid]

ToolCall(i, n, a) == [id |-> i, name |-> n, arguments |-> a]

HasToolCalls(msg) == msg.role = "assistant" /\ Len(msg.tool_calls) > 0

IsToolResponse(msg) == msg.role = "tool" /\ msg.tool_call_id # <<>>

(***************************************************************************)
(* sanitizeToolId.  Date.now() and Math.random() are inputs of the         *)
(* function: fallbackId is the id they produce for this call.              *)
(***************************************************************************)
StripDisallowed(id) == SelectSeq(id, LAMBDA ch : ch \in WordOrDash)

sanitizeToolId(id, fallbackId) ==
    IF id = <<>> THEN fallbackId
    ELSE LET s == StripDisallowed(id)
         IN  IF s = <<>> THEN fallbackId ELSE s

(***************************************************************************)
(* sanitizeToolIdsInMessages.  fb[<<i, j>>] is the fallback id generated   *)
(* by the sanitizeToolId call made for call j of message i (j = 0: the     *)
(* tool_call_id of message i).                                             *)
(***************************************************************************)
NeedsFallback(id) == id = <<>> \/ StripDisallowed(id) = <<>>

FallbackSites(msgs) ==
    {<<i, 0>> : i \in {k \in 1..Len(msgs) :
                        /\ IsToolResponse(msgs[k])
                        /\ NeedsFallback(msgs[k].tool_call_id)}}
    \cup UNION {{<<i, j>> : j \in {c \in 1..Len(msgs[i].tool_calls) :
                                    NeedsFallback(msgs[i].tool_calls[c].id)}}
                : i \in {k \in 1..Len(msgs) : HasToolCalls(msgs[k])}}

FallbackAt(fb, site) == IF site \in DOMAIN fb THEN fb[site] ELSE <<>>

sanitizeToolIdsInMessages(msgs, fb) ==
    [i \in 1..Len(msgs) |->
        LET msg == msgs[i]
            tid == IF IsToolResponse(msg)
                   THEN sanitizeToolId(msg.tool_call_id, FallbackAt(fb, <<i, 0>>))
                   ELSE msg.tool_call_id
            tcs == IF HasToolCalls(msg)
                   THEN [j \in 1..Len(msg.tool_calls) |->
                            [msg.tool_calls[j] EXCEPT
                                !.id = sanitizeToolId(@, FallbackAt(fb, <<i, j>>))]]
                   ELSE msg.tool_calls
        IN  [msg EXCEPT !.tool_call_id = tid, !.tool_calls = tcs]]

(***************************************************************************)
(* fixToolCallsMessages.                                                   *)
(***************************************************************************)
Unknown == <<"u","n","k","n","o","w","n">>

\* JSON.stringify({status, reason, tool_name}): 88 characters around the name
PlaceholderLen(name) == 88 + Len(name)

PlaceholderResponse(tc) ==
    LET name == IF tc.name # <<>> THEN tc.name ELSE Unknown
    IN  Msg("tool",
            [kind |-> "skipped", tool_name |-> name, len |-> PlaceholderLen(name),
             images |-> 0],
            <<>>, tc.id)

\* Map.set in message order: the last response with an id is the one kept
toolResponseMap(msgs) ==
    LET ids == {msgs[k].tool_call_id : k \in {n \in 1..Len(msgs) : IsToolResponse(msgs[n])}}
        last(id) == CHOOSE k \in 1..Len(msgs) :
                        /\ IsToolResponse(msgs[k]) /\ msgs[k].tool_call_id = id
                        /\ \A n \in k+1..Len(msgs) :
                              ~(IsToolResponse(msgs[n]) /\ msgs[n].tool_call_id = id)
    IN  [id \in ids |-> msgs[last(id)]]

\* variant: a call without a response gets no placeholder
ResponsesFor_NoPlaceholder(msg, map) ==
    LET answered == SelectSeq(msg.tool_calls, LAMBDA tc : tc.id \in DOMAIN map)
    IN  [j \in 1..Len(answered) |-> map[answered[j].id]]

ResponsesFor(msg, map) ==
    [j \in 1..Len(msg.tool_calls) |->
        IF msg.tool_calls[j].id \in DOMAIN map
        THEN map[msg.tool_calls[j].id]
        ELSE PlaceholderResponse(msg.tool_calls[j])]

fixToolCallsMessages(msgs) ==
    LET map == toolResponseMap(msgs)
    IN  Flatten([i \in 1..Len(msgs) |->
            IF msgs[i].role = "tool" THEN <<>>
            ELSE IF HasToolCalls(msgs[i])
                 THEN <<msgs[i]>> \o ResponsesFor(msgs[i], map)
                 ELSE <<msgs[i]>>])

(***************************************************************************)
(* Inbound conversations of the repair specification.                      *)
(***************************************************************************)
IdEmpty == <<>>
IdA == <<"a">>
IdBang == <<"!">>
IdABang == <<"a", "!">>

FnF == <<"f">>

\* calls "!" (nothing survives stripping), "a!" (stripped to "a") and "a"
RepairCalls ==
    {ToolCall(IdBang, FnF, 0), ToolCall(IdABang, FnF, 0), ToolCall(IdA, <<>>, 0)}

\* messages with k tool calls
RepairMsgs(k) ==
    IF k = 0
    THEN {Msg("user", PlainText(8), <<>>, <<>>),
          Msg("assistant", PlainText(8), <<>>, <<>>),
          Msg("tool", PlainText(12), <<>>, IdA)}
         \cup {Msg("tool", PlainText(8), <<>>, i) : i \in {IdEmpty, IdA, IdBang}}
    ELSE {Msg("assistant", PlainText(8), tcs, <<>>) : tcs \in [1..k -> RepairCalls]}

\* profile[i]: the number of tool calls of message i
CallProfiles(n, c) == {profile \in [1..n -> 0..c] : SumSeq(profile) <= c}

RECURSIVE ConversationsOf(_)
ConversationsOf(profile) ==
    IF profile = <<>> THEN {<<>>}
    ELSE LET rests == ConversationsOf(Tail(profile))
         IN  {<<m>> \o rest : m \in RepairMsgs(Head(profile)), rest \in rests}

\* `tool_${Date.now()}_${Math.random().toString(36).slice(2, 9)}`
FallbackIds == {<<"t","o","o","l","_","1","_","x">>, <<"t","o","o","l","_","1","_","y">>}

NoResult == <<>>

InitRepair ==
    /\ pc = "start"
    /\ \E n \in 0..MaxMsgs : \E profile \in CallProfiles(n, MaxCalls) :
          messages \in ConversationsOf(profile)
    /\ sanitized = NoResult /\ fixIn = NoResult /\ fixed = NoResult /\ refixed = NoResult
    /\ model = Null /\ translated = Null /\ limitArg = Null /\ contextLimit = 0
    /\ targetTokens = NoTarget /\ truncation = Null
    /\ NoPipeline /\ NoRelay

\* handler.ts:437, inner call
Sanitize ==
    /\ pc = "start"
    /\ \E fb \in [FallbackSites(messages) -> FallbackIds] :
          sanitized' = sanitizeToolIdsInMessages(messages, fb)
    /\ pc' = "sanitized"
    /\ UNCHANGED <<messages, fixIn, fixed, refixed, model, translated, limitArg,
                   contextLimit, targetTokens, truncation>>
    /\ UNCHANGED <<pipeVars, relayVars>>

\* handler.ts:437, outer call
Repair ==
    /\ pc = "sanitized"
    /\ fixIn' = sanitized
    /\ fixed' = fixToolCallsMessages(sanitized)
    /\ pc' = "repaired"
    /\ UNCHANGED <<messages, sanitized, refixed, model, translated, limitArg,
                   contextLimit, targetTokens, truncation>>
    /\ UNCHANGED <<pipeVars, relayVars>>

\* the repairer applied to a conversation that was not sanitized (handler.ts:131)
RepairRaw ==
    /\ pc = "start"
    /\ fixIn' = messages
    /\ fixed' = fixToolCallsMessages(messages)
    /\ pc' = "repairedRaw"
    /\ UNCHANGED <<messages, sanitized, refixed, model, translated, limitArg,
                   contextLimit, targetTokens, truncation>>
    /\ UNCHANGED <<pipeVars, relayVars>>

\* the repairer applied to its own output
RepairAgain ==
    /\ pc = "repaired"
    /\ refixed' = fixToolCallsMessages(fixed)
    /\ pc' = "rerepaired"
    /\ UNCHANGED <<messages, sanitized, fixIn, fixed, model, translated, limitArg,
                   contextLimit, targetTokens, truncation>>
    /\ UNCHANGED <<pipeVars, relayVars>>

NextRepair == Sanitize \/ Repair \/ RepairRaw \/ RepairAgain

SpecRepair == InitRepair /\ [][NextRepair]_vars

(***************************************************************************)
(* String operations used on model names.                                  *)
(***************************************************************************)
StartsWith(s, p) == Len(p) <= Len(s) /\ SubSeq(s, 1, Len(p)) = p

EndsWith(s, p) == Len(p) <= Len(s) /\ SubSeq(s, Len(s) - Len(p) + 1, Len(s)) = p

Includes(s, p) == \E i \in 0..(Len(s) - Len(p)) : SubSeq(s, i + 1, i + Len(p)) = p

UpperSeq == <<"A","B","C","D","E","F","G","H","I","J","K","L","M",
              "N","O","P","Q","R","S","T","U","V","W","X","Y","Z">>
LowerSeq == <<"a","b","c","d","e","f","g","h","i","j","k","l","m",
              "n","o","p","q","r","s","t","u","v","w","x","y","z">>

LowerOf(ch) ==
    IF ch \in UpperChars THEN LowerSeq[CHOOSE k \in 1..26 : UpperSeq[k] = ch] ELSE ch

toLowerCase(s) == [i \in 1..Len(s) |-> LowerOf(s[i])]

S_claude == <<"c","l","a","u","d","e">>
S_gemini == <<"g","e","m","i","n","i">>
S_gpt4 == <<"g","p","t","-","4">>
S_gpt5 == <<"g","p","t","-","5">>
S_gpt == <<"g","p","t">>
S_51 == <<"5",".","1">>
S_codex == <<"c","o","d","e","x">>
S_dashCodex == <<"-","c","o","d","e","x">>
S_o1 == <<"o","1">>
S_o3 == <<"o","3">>
S_o4 == <<"o","4">>
S_default == <<"d","e","f","a","u","l","t">>
S_gpt51 == <<"g","p","t","-","5",".","1">>
S_claudeSonnet4 == <<"c","l","a","u","d","e","-","s","o","n","n","e","t","-","4">>
S_claudeOpus4 == <<"c","l","a","u","d","e","-","o","p","u","s","-","4">>
S_claudeHaiku4 == <<"c","l","a","u","d","e","-","h","a","i","k","u","-","4">>
Dash == <<"-">>

(***************************************************************************)
(* translateModelName.                                                     *)
(***************************************************************************)
\* variant: the gpt rules test the name as given, not its lower-case form
translateModelName_CaseSensitive(m) ==
    IF StartsWith(m, S_claudeSonnet4 \o Dash) THEN S_claudeSonnet4
    ELSE IF StartsWith(m, S_claudeOpus4 \o Dash) THEN S_claudeOpus4
    ELSE IF StartsWith(m, S_claudeHaiku4 \o Dash) THEN S_claudeHaiku4
    ELSE IF Includes(m, S_gpt) /\ Includes(m, S_51) /\ Includes(m, S_codex)
         THEN S_gpt51
    ELSE IF Includes(m, S_gpt) /\ EndsWith(m, S_dashCodex)
         THEN SubSeq(m, 1, Len(m) - 6)
    ELSE m

translateModelName(m) ==
    LET modelLower == toLowerCase(m)
    IN  IF StartsWith(m, S_claudeSonnet4 \o Dash) THEN S_claudeSonnet4
        ELSE IF StartsWith(m, S_claudeOpus4 \o Dash) THEN S_claudeOpus4
        ELSE IF StartsWith(m, S_claudeHaiku4 \o Dash) THEN S_claudeHaiku4
        ELSE IF /\ Includes(modelLower, S_gpt)
                /\ Includes(modelLower, S_51)
                /\ Includes(modelLower, S_codex)
             THEN S_gpt51
        ELSE IF Includes(modelLower, S_gpt) /\ EndsWith(modelLower, S_dashCodex)
             THEN SubSeq(m, 1, Len(m) - 6)
        ELSE m

(***************************************************************************)
(* MODEL_CONTEXT_LIMITS, in the order of the object literal (the order in  *)
(* which Object.entries enumerates it).                                    *)
(***************************************************************************)
MODEL_CONTEXT_LIMITS == <<
    <<<<"g","p","t","-","4">>, 8192>>,  \* gpt-4
    <<<<"g","p","t","-","4","-","3","2","k">>, 32768>>,  \* gpt-4-32k
    <<<<"g","p","t","-","4","-","t","u","r","b","o">>, 128000>>,  \* gpt-4-turbo
    <<<<"g","p","t","-","4","-","t","u","r","b","o","-","p","r","e","v","i","e","w">>, 128000>>,  \* gpt-4-turbo-preview
    <<<<"g","p","t","-","4","o">>, 128000>>,  \* gpt-4o
    <<<<"g","p","t","-","4","o","-","m","i","n","i">>, 128000>>,  \* gpt-4o-mini
    <<<<"g","p","t","-","4",".","1">>, 1000000>>,  \* gpt-4.1
    <<<<"g","p","t","-","4",".","1","-","m","i","n","i">>, 1000000>>,  \* gpt-4.1-mini
    <<<<"g","p","t","-","4",".","5","-","p","r","e","v","i","e","w">>, 128000>>,  \* gpt-4.5-preview
    <<<<"g","p","t","-","5">>, 128000>>,  \* gpt-5
    <<<<"g","p","t","-","5",".","2">>, 128000>>,  \* gpt-5.2
    <<<<"g","p","t","-","5",".","2","-","c","o","d","e","x">>, 128000>>,  \* gpt-5.2-codex
    <<<<"o","1">>, 200000>>,  \* o1
    <<<<"o","1","-","m","i","n","i">>, 128000>>,  \* o1-mini
    <<<<"o","1","-","p","r","e","v","i","e","w">>, 128000>>,  \* o1-preview
    <<<<"o","1","-","p","r","o">>, 200000>>,  \* o1-pro
    <<<<"o","3">>, 200000>>,  \* o3
    <<<<"o","3","-","m","i","n","i">>, 128000>>,  \* o3-mini
    <<<<"o","3","-","p","r","o">>, 200000>>,  \* o3-pro
    <<<<"o","4","-","m","i","n","i">>, 200000>>,  \* o4-mini
    <<<<"c","l","a","u","d","e","-","3","-","o","p","u","s">>, 200000>>,  \* claude-3-opus
    <<<<"c","l","a","u","d","e","-","3","-","s","o","n","n","e","t">>, 200000>>,  \* claude-3-sonnet
    <<<<"c","l","a","u","d","e","-","3","-","h","a","i","k","u">>, 200000>>,  \* claude-3-haiku
    <<<<"c","l","a","u","d","e","-","3",".","5","-","s","o","n","n","e","t">>, 200000>>,  \* claude-3.5-sonnet
    <<<<"c","l","a","u","d","e","-","3",".","5","-","h","a","i","k","u">>, 200000>>,  \* claude-3.5-haiku
    <<<<"c","l","a","u","d","e","-","s","o","n","n","e","t","-","4">>, 200000>>,  \* claude-sonnet-4
    <<<<"c","l","a","u","d","e","-","o","p","u","s","-","4">>, 200000>>,  \* claude-opus-4
    <<<<"c","l","a","u","d","e","-","h","a","i","k","u","-","4">>, 200000>>,  \* claude-haiku-4
    <<<<"g","e","m","i","n","i","-","2",".","0","-","f","l","a","s","h">>, 1000000>>,  \* gemini-2.0-flash
    <<<<"g","e","m","i","n","i","-","2",".","5","-","p","r","o">>, 1000000>>,  \* gemini-2.5-pro
    <<<<"d","e","f","a","u","l","t">>, 128000>>  \* default
    >>

\* names every object inherits from Object.prototype: `model in MODEL_CONTEXT_LIMITS`
\* holds for them and the value read is a function, not a number
ObjectPrototypeKeys == {<<"t","o","S","t","r","i","n","g">>, <<"c","o","n","s","t","r","u","c","t","o","r">>, <<"v","a","l","u","e","O","f">>, <<"h","a","s","O","w","n","P","r","o","p","e","r","t","y">>}

NotANumber == -1

(***************************************************************************)
(* getModelContextLimit.                                                   *)
(***************************************************************************)
TableIndex(key) ==
    CHOOSE k \in 1..Len(MODEL_CONTEXT_LIMITS) : MODEL_CONTEXT_LIMITS[k][1] = key

FamilyLimit(m) ==
    IF Includes(m, S_claude) THEN 200000
    ELSE IF Includes(m, S_gemini) THEN 1000000
    ELSE IF Includes(m, S_gpt4) THEN 128000
    ELSE IF Includes(m, S_gpt5) THEN 128000
    ELSE IF StartsWith(m, S_o1) \/ StartsWith(m, S_o3) \/ StartsWith(m, S_o4) THEN 200000
    ELSE MODEL_CONTEXT_LIMITS[TableIndex(S_default)][2]

PrefixEntries(m) ==
    {k \in 1..Len(MODEL_CONTEXT_LIMITS) :
        /\ MODEL_CONTEXT_LIMITS[k][1] # S_default
        /\ StartsWith(m, MODEL_CONTEXT_LIMITS[k][1])}

getModelContextLimit(m) ==
    IF \E k \in 1..Len(MODEL_CONTEXT_LIMITS) : MODEL_CONTEXT_LIMITS[k][1] = m
    THEN MODEL_CONTEXT_LIMITS[TableIndex(m)][2]
    ELSE IF m \in ObjectPrototypeKeys THEN NotANumber
    ELSE IF PrefixEntries(m) # {}
         THEN LET first == CHOOSE k \in PrefixEntries(m) :
                               \A n \in PrefixEntries(m) : k <= n
              IN  MODEL_CONTEXT_LIMITS[first][2]
    ELSE FamilyLimit(m)

(***************************************************************************)
(* Requests of the model-name specification.                               *)
(***************************************************************************)
\* model identifiers of the requests: the table keys and the identifiers below
TableKeys == {MODEL_CONTEXT_LIMITS[k][1] : k \in 1..Len(MODEL_CONTEXT_LIMITS)}

OtherModelNames == {
    <<"g","p","t","-","4","o","-","2","0","2","4","-","0","8","-","0","6">>,  \* gpt-4o-2024-08-06
    <<"g","p","t","-","4","-","3","2","k","-","0","6","1","3">>,  \* gpt-4-32k-0613
    <<"g","p","t","-","4","-","0","6","1","3">>,  \* gpt-4-0613
    <<"g","p","t","-","4",".","1","-","n","a","n","o">>,  \* gpt-4.1-nano
    <<"g","p","t","-","4","-","t","u","r","b","o","-","2","0","2","4","-","0","4","-","0","9">>,  \* gpt-4-turbo-2024-04-09
    <<"g","p","t","-","4","o","-","m","i","n","i","-","2","0","2","4","-","0","7","-","1","8">>,  \* gpt-4o-mini-2024-07-18
    <<"g","p","t","-","5","-","m","i","n","i">>,  \* gpt-5-mini
    <<"g","p","t","-","5",".","1">>,  \* gpt-5.1
    <<"g","p","t","-","5",".","1","-","c","o","d","e","x">>,  \* gpt-5.1-codex
    <<"g","p","t","-","5",".","1","-","c","o","d","e","x","-","m","a","x">>,  \* gpt-5.1-codex-max
    <<"G","P","T","-","5",".","1","-","C","o","d","e","x","-","M","i","n","i">>,  \* GPT-5.1-Codex-Mini
    <<"G","P","T","-","5",".","2","-","C","o","d","e","x">>,  \* GPT-5.2-Codex
    <<"g","p","t","-","5",".","3","-","c","o","d","e","x">>,  \* gpt-5.3-codex
    <<"g","p","t","-","5","-","c","o","d","e","x">>,  \* gpt-5-codex
    <<"c","o","d","e","x","-","5",".","1","-","g","p","t">>,  \* codex-5.1-gpt
    <<"o","1","-","2","0","2","4","-","1","2","-","1","7">>,  \* o1-2024-12-17
    <<"o","3","-","m","i","n","i","-","h","i","g","h">>,  \* o3-mini-high
    <<"o","4">>,  \* o4
    <<"o","4","-","x">>,  \* o4-x
    <<"o","5">>,  \* o5
    <<"c","l","a","u","d","e","-","s","o","n","n","e","t","-","4","-","2","0","2","5","0","5","1","4">>,  \* claude-sonnet-4-20250514
    <<"c","l","a","u","d","e","-","o","p","u","s","-","4","-","1">>,  \* claude-opus-4-1
    <<"c","l","a","u","d","e","-","h","a","i","k","u","-","4","-","5">>,  \* claude-haiku-4-5
    <<"c","l","a","u","d","e","-","s","o","n","n","e","t","-","4",".","5">>,  \* claude-sonnet-4.5
    <<"c","l","a","u","d","e","-","3",".","7","-","s","o","n","n","e","t">>,  \* claude-3.7-sonnet
    <<"c","l","a","u","d","e","-","3","-","o","p","u","s","-","2","0","2","4","0","2","2","9">>,  \* claude-3-opus-20240229
    <<"C","l","a","u","d","e","-","S","o","n","n","e","t","-","4","-","1">>,  \* Claude-Sonnet-4-1
    <<"c","l","a","u","d","e","-","s","o","n","n","e","t","-","4","-","g","p","t","-","5",".","1","-","c","o","d","e","x">>,  \* claude-sonnet-4-gpt-5.1-codex
    <<"g","e","m","i","n","i","-","2",".","5","-","p","r","o","-","p","r","e","v","i","e","w">>,  \* gemini-2.5-pro-preview
    <<"g","e","m","i","n","i","-","3","-","p","r","o">>,  \* gemini-3-pro
    <<"f","t","-","g","p","t","-","4","o">>,  \* ft-gpt-4o
    <<"m","y","-","g","p","t","-","5">>,  \* my-gpt-5
    <<"l","l","a","m","a","-","3">>,  \* llama-3
    <<"t","e","x","t","-","c","o","d","e","x">>,  \* text-codex
    <<"x","-","c","o","d","e","x">>,  \* x-codex
    <<"d","e","f","a","u","l","t","-","x">>,  \* default-x
    <<>>  \* (empty)
    }

ModelNames == TableKeys \cup OtherModelNames

InitModel ==
    /\ pc = "start"
    /\ model \in ModelNames
    /\ translated = Null /\ limitArg = Null /\ contextLimit = 0
    /\ messages = <<>> /\ sanitized = NoResult /\ fixIn = NoResult
    /\ fixed = NoResult /\ refixed = NoResult
    /\ targetTokens = NoTarget /\ truncation = Null
    /\ NoPipeline /\ NoRelay

\* handler.ts:428
Translate ==
    /\ pc = "start"
    /\ translated' = translateModelName(model)
    /\ pc' = "translated"
    /\ UNCHANGED <<messages, sanitized, fixIn, fixed, refixed, model, limitArg,
                   contextLimit, targetTokens, truncation>>
    /\ UNCHANGED <<pipeVars, relayVars>>

\* getModelContextLimit is exported: called with the name as given, or with
\* the translated name (handleCompletion -> getDynamicTargetLimit)
LookupLimit ==
    /\ pc = "translated"
    /\ \E m \in {model, translated} :
          /\ limitArg' = m
          /\ contextLimit' = getModelContextLimit(m)
    /\ pc' = "resolved"
    /\ UNCHANGED <<messages, sanitized, fixIn, fixed, refixed, model, translated,
                   targetTokens, truncation>>
    /\ UNCHANGED <<pipeVars, relayVars>>

NextModel == Translate \/ LookupLimit

SpecModel == InitModel /\ [][NextModel]_vars

(***************************************************************************)
(* Context truncation module.                                              *)
(***************************************************************************)
CharsPerToken == 4
MessageOverhead == 4
ImageTokens == 128
CompressCeiling == 8000
MinReserve == 4096

CeilDiv(a, b) == (a + b - 1) \div b

getDynamicTargetLimit(m) ==
    LET contextLimit_ == getModelContextLimit(m)
        percent == (contextLimit_ * 15) \div 100
        reserved == IF percent > MinReserve THEN percent ELSE MinReserve
    IN  contextLimit_ - reserved

\* variant: a tool response is an ordinary message
categorizeMessage_ToolRegular(message) ==
    IF message.role = "system" THEN "system"
    ELSE IF message.role = "assistant" /\ Len(message.tool_calls) > 0 THEN "tool_context"
    ELSE "regular"

categorizeMessage(message) ==
    IF message.role = "system" THEN "system"
    ELSE IF message.role = "tool" THEN "tool_context"
    ELSE IF message.role = "assistant" /\ Len(message.tool_calls) > 0 THEN "tool_context"
    ELSE "regular"

CallsTextLen(tcs) ==
    SumSeq([j \in 1..Len(tcs) |-> Len(tcs[j].name) + tcs[j].arguments])

\* length of the text the estimate is taken of
EstimatedTextLen(message) ==
    message.content.len + message.content.images * (ImageTokens * CharsPerToken)
    + (IF message.role = "assistant" THEN CallsTextLen(message.tool_calls) ELSE 0)
    + (IF message.role = "tool" THEN Len(message.tool_call_id) ELSE 0)

estimateMessageTokens(message) ==
    CeilDiv(EstimatedTextLen(message), CharsPerToken) + MessageOverhead

RECURSIVE Digits(_)
Digits(n) == IF n < 10 THEN 1 ELSE 1 + Digits(n \div 10)

\* "\n\n... [内容已截断，中间省略 " and " 字符] ...\n\n": 18 and 10 characters
MarkerLen(omitted) == 18 + Digits(omitted) + 10

compressToolResult(message) ==
    LET contentLen == IF message.content.kind = "parts" THEN 0 ELSE message.content.len
        currentTokens == estimateMessageTokens(message)
        \* Math.floor(content.length * (maxTokens / currentTokens) * 0.9)
        targetLength == (contentLen * ((CompressCeiling * 9) \div 10)) \div currentTokens
        headLength == (targetLength * 6) \div 10
        tailLength == (targetLength * 3) \div 10
        \* content.slice(-0) is the whole content
        tailKept == IF tailLength = 0 THEN contentLen ELSE tailLength
    IN  IF currentTokens <= CompressCeiling THEN message
        ELSE [message EXCEPT !.content =
                 [kind |-> "truncated", tool_name |-> message.content.tool_name,
                  len |-> headLength + MarkerLen(contentLen - headLength - tailLength)
                          + tailKept,
                  images |-> 0]]

Item(msg, tokens, index) ==
    [msg |-> msg, category |-> categorizeMessage(msg), tokens |-> tokens, index |-> index]

\* step 1 (handler.ts:774-784)
CompressItem(item) ==
    IF item.msg.role = "tool" /\ item.tokens > CompressCeiling
    THEN LET compressedMsg == compressToolResult(item.msg)
             newTokens == estimateMessageTokens(compressedMsg)
         IN  IF newTokens < item.tokens
             THEN [item EXCEPT !.msg = compressedMsg, !.tokens = newTokens]
             ELSE item
    ELSE item

ItemTokens(items, idx) == SumSeq([k \in 1..Len(items) |-> IF k \in idx THEN items[k].tokens ELSE 0])

\* step 2 (handler.ts:806-843): indices that must be kept
LastToolIndex(items) ==
    IF \E i \in 1..Len(items) : items[i].category = "tool_context"
    THEN CHOOSE i \in 1..Len(items) :
            /\ items[i].category = "tool_context"
            /\ \A n \in i+1..Len(items) : items[n].category # "tool_context"
    ELSE 0

\* the backward scan adds tool-context items and breaks at a regular one
LastToolChain(items) ==
    {i \in 1..LastToolIndex(items) :
        /\ items[i].category = "tool_context"
        /\ \A n \in i+1..LastToolIndex(items) : items[n].category # "regular"}

LastUser(items) ==
    {i \in 1..Len(items) :
        /\ items[i].msg.role = "user"
        /\ \A n \in i+1..Len(items) : items[n].msg.role # "user"}

\* variant: the last user message is not protected
MustKeep_NoUser(items) ==
    {i \in 1..Len(items) : items[i].category = "system"} \cup LastToolChain(items)

MustKeep(items) ==
    {i \in 1..Len(items) : items[i].category = "system"}
    \cup LastToolChain(items) \cup LastUser(items)

\* step 3 (handler.ts:869-877): regular messages, most recent first, kept
\* while they fit; regs are the candidate indices in ascending order
RECURSIVE KeepRegular(_, _, _, _)
KeepRegular(items, regs, usedTokens, availableTokens) ==
    IF regs = <<>> THEN {}
    ELSE LET i == regs[Len(regs)]
             rest == SubSeq(regs, 1, Len(regs) - 1)
         IN  IF usedTokens + items[i].tokens <= availableTokens
             THEN {i} \cup KeepRegular(items, rest, usedTokens + items[i].tokens,
                                       availableTokens)
             ELSE KeepRegular(items, rest, usedTokens, availableTokens)

Ascending(S, n) == SelectSeq([k \in 1..n |-> k], LAMBDA k : k \in S)

TruncationResult(msgs, kept, originalTokens, truncatedTokens, removedCount, compressedCount) ==
    [messages |-> msgs, kept |-> kept, originalTokens |-> originalTokens,
     truncatedTokens |-> truncatedTokens, removedCount |-> removedCount,
     compressedCount |-> compressedCount]

\* handler.ts:732
TargetOf(m, targetOpt) ==
    IF targetOpt # NoTarget THEN targetOpt[1] ELSE getDynamicTargetLimit(m)

Categorized(msgs) ==
    [i \in 1..Len(msgs) |-> Item(msgs[i], estimateMessageTokens(msgs[i]), i)]

Compressed(msgs) == [i \in 1..Len(msgs) |-> CompressItem(Categorized(msgs)[i])]

\* variant: the compression pass is run whatever the original cost
NoTruncationNeeded_Never(originalTokens, target) == FALSE

\* handler.ts:744
NoTruncationNeeded(originalTokens, target) == originalTokens <= target

\* variant: result.sort((a, b) => b.index - a.index)
ResultOrder_Descending(S, n) ==
    LET asc == Ascending(S, n) IN [j \in 1..Len(asc) |-> asc[Len(asc) + 1 - j]]

\* handler.ts:880-889: the kept items in the order of their index
ResultOrder(S, n) == Ascending(S, n)

\* kept: the index fields of the items returned (all indices on the early returns)
truncateMessagesSmart(msgs, m, targetOpt) ==
    LET n == Len(msgs)
        target == TargetOf(m, targetOpt)
        categorized == Categorized(msgs)
        originalTokens == ItemTokens(categorized, 1..n)
        compressed == Compressed(msgs)
        compressedCount == Cardinality({i \in 1..n : compressed[i] # categorized[i]})
        currentTokens == ItemTokens(compressed, 1..n)
        mustKeep == MustKeep(compressed)
        availableTokens == target - ItemTokens(compressed, mustKeep)
        regularMessages == Ascending({i \in 1..n : i \notin mustKeep
                                        /\ compressed[i].category = "regular"}, n)
        keepRegular == KeepRegular(compressed, regularMessages, 0, availableTokens)
        result == ResultOrder(mustKeep \cup keepRegular, n)
    IN  IF NoTruncationNeeded(originalTokens, target)
        THEN TruncationResult(msgs, [i \in 1..n |-> i], originalTokens, originalTokens, 0, 0)
        ELSE IF currentTokens <= target
        THEN TruncationResult([i \in 1..n |-> compressed[i].msg], [i \in 1..n |-> i],
                              originalTokens, currentTokens, 0, compressedCount)
        ELSE TruncationResult([j \in 1..Len(result) |-> compressed[result[j]].msg],
                              result, originalTokens,
                              SumSeq([j \in 1..Len(result) |-> compressed[result[j]].tokens]),
                              n - Len(result), compressedCount)

(***************************************************************************)
(* Calls of the truncation specification.                                  *)
(***************************************************************************)
MaxTruncMsgs == 4

TruncMsgs ==
    {Msg("system", PlainText(8), <<>>, <<>>),
     Msg("user", PlainText(8), <<>>, <<>>),
     Msg("user", Parts(8, 1), <<>>, <<>>),
     Msg("assistant", PlainText(40), <<>>, <<>>),
     Msg("assistant", PlainText(0), <<ToolCall(IdA, FnF, 7)>>, <<>>),
     Msg("tool", PlainText(8), <<>>, IdA),
     Msg("tool", PlainText(40000), <<>>, IdA)}

\* explicit targets; without one the target is derived from the model
Targets == {15, 30, 150, 6500, 10020}

InitTrunc ==
    /\ pc = "start"
    /\ messages \in SeqsUpTo(TruncMsgs, MaxTruncMsgs)
    /\ model = S_gpt4
    /\ targetTokens \in {<<t>> : t \in Targets} \cup {NoTarget}
    /\ truncation = Null
    /\ translated = Null /\ limitArg = Null /\ contextLimit = 0
    /\ sanitized = NoResult /\ fixIn = NoResult /\ fixed = NoResult /\ refixed = NoResult
    /\ NoPipeline /\ NoRelay

Truncate ==
    /\ pc = "start"
    /\ truncation' = truncateMessagesSmart(messages, model, targetTokens)
    /\ pc' = "fitted"
    /\ UNCHANGED <<messages, sanitized, fixIn, fixed, refixed, model, translated,
                   limitArg, contextLimit, targetTokens>>
    /\ UNCHANGED <<pipeVars, relayVars>>

NextTrunc == Truncate

SpecTrunc == InitTrunc /\ [][NextTrunc]_vars

(***************************************************************************)
(* C1: in the output of fixToolCallsMessages every assistant message with  *)
(* N >= 1 tool calls is immediately followed by exactly N tool messages    *)
(* whose tool_call_id values are the ids of its calls in listed order; the *)
(* j-th is a response of the input when the input has a response with that *)
(* id, and a "skipped" placeholder otherwise.                              *)
(***************************************************************************)
HasResponse(in, id) ==
    \E k \in 1..Len(in) : IsToolResponse(in[k]) /\ in[k].tool_call_id = id

FollowedByResponses(in, out) ==
    \A i \in 1..Len(out) :
        HasToolCalls(out[i]) =>
            LET n == Len(out[i].tool_calls)
            IN  /\ i + n <= Len(out)
                /\ \A j \in 1..n :
                      /\ out[i+j].role = "tool"
                      /\ out[i+j].tool_call_id = out[i].tool_calls[j].id
                      /\ IF HasResponse(in, out[i].tool_calls[j].id)
                         THEN out[i+j] \in Range(in)
                         ELSE out[i+j].content.kind = "skipped"
                /\ i + n < Len(out) => out[i+n+1].role # "tool"

C1_CallsFollowedByResponses ==
    pc \in {"repaired", "repairedRaw"} => FollowedByResponses(fixIn, fixed)

\* calls a!,a with a response only for the first, which stood before the assistant
C1_Witness ==
    /\ pc = "repaired"
    /\ fixed # fixIn
    /\ \E i \in 1..Len(fixed) :
          /\ HasToolCalls(fixed[i]) /\ Len(fixed[i].tool_calls) = 2
          /\ i + 2 <= Len(fixed)
          /\ fixed[i+1].content.kind = "text"
          /\ fixed[i+2].content.kind = "skipped"

(***************************************************************************)
(* C2: repairing a repaired, sanitized conversation returns it unchanged.  *)
(***************************************************************************)
C2_RepairIdempotent == pc = "rerepaired" => refixed = fixed

(***************************************************************************)
(* C3: after sanitizeToolIdsInMessages every tool_calls[].id and every     *)
(* tool message's tool_call_id is non-empty and made of [A-Za-z0-9_-].     *)
(***************************************************************************)
ValidId(id) == id # <<>> /\ \A k \in 1..Len(id) : id[k] \in WordOrDash

C3_SanitizedIdsValid ==
    pc = "sanitized" =>
        \A i \in 1..Len(sanitized) :
            /\ sanitized[i].role = "tool" => ValidId(sanitized[i].tool_call_id)
            /\ sanitized[i].role = "assistant" =>
                  \A j \in 1..Len(sanitized[i].tool_calls) :
                      ValidId(sanitized[i].tool_calls[j].id)

(***************************************************************************)
(* C4: two occurrences of the same non-empty original id are mapped to the *)
(* same sanitized id by one pass.                                          *)
(***************************************************************************)
IdSites(msgs) ==
    {<<i, 0>> : i \in {k \in 1..Len(msgs) : msgs[k].role = "tool"}}
    \cup UNION {{<<i, j>> : j \in 1..Len(msgs[i].tool_calls)}
                : i \in {k \in 1..Len(msgs) : msgs[k].role = "assistant"}}

IdAt(msgs, site) ==
    IF site[2] = 0 THEN msgs[site[1]].tool_call_id
    ELSE msgs[site[1]].tool_calls[site[2]].id

C4_SameIdSameSanitizedId ==
    pc = "sanitized" =>
        \A p, q \in IdSites(messages) :
            (IdAt(messages, p) = IdAt(messages, q) /\ IdAt(messages, p) # <<>>)
                => IdAt(sanitized, p) = IdAt(sanitized, q)

(***************************************************************************)
(* C9: getModelContextLimit returns the table entry on exact match,        *)
(* otherwise the entry of the longest table key that is a prefix of the    *)
(* identifier, otherwise the family heuristic value, otherwise 128000.     *)
(***************************************************************************)
KeyOf(k) == MODEL_CONTEXT_LIMITS[k][1]

LongestPrefixEntry(m) ==
    CHOOSE k \in PrefixEntries(m) :
        \A n \in PrefixEntries(m) : Len(KeyOf(n)) <= Len(KeyOf(k))

ExpectedContextLimit(m) ==
    IF m \in TableKeys THEN MODEL_CONTEXT_LIMITS[TableIndex(m)][2]
    ELSE IF PrefixEntries(m) # {} THEN MODEL_CONTEXT_LIMITS[LongestPrefixEntry(m)][2]
    ELSE IF Includes(m, S_claude) THEN 200000
    ELSE IF Includes(m, S_gemini) THEN 1000000
    ELSE IF Includes(m, S_gpt4) \/ Includes(m, S_gpt5) THEN 128000
    ELSE IF StartsWith(m, S_o1) \/ StartsWith(m, S_o3) \/ StartsWith(m, S_o4) THEN 200000
    ELSE 128000

C9_LongestPrefixLimit ==
    pc = "resolved" => contextLimit = ExpectedContextLimit(limitArg)

(***************************************************************************)
(* C10: translateModelName maps names starting with "claude-sonnet-4-",    *)
(* "claude-opus-4-" or "claude-haiku-4-" to the unversioned family name;   *)
(* otherwise gpt 5.1 codex names to "gpt-5.1"; otherwise gpt names ending  *)
(* in "-codex" to the name without that suffix; every other name is        *)
(* returned unchanged.                                                     *)
(***************************************************************************)
ClaudeFamilies == {S_claudeSonnet4, S_claudeOpus4, S_claudeHaiku4}

IsVersionedClaude(m) == \E f \in ClaudeFamilies : StartsWith(m, f \o Dash)

IsGpt51Codex(m) ==
    /\ Includes(toLowerCase(m), S_gpt)
    /\ Includes(toLowerCase(m), S_51)
    /\ Includes(toLowerCase(m), S_codex)

IsGptDashCodex(m) ==
    Includes(toLowerCase(m), S_gpt) /\ EndsWith(toLowerCase(m), S_dashCodex)

C10_TranslationRules ==
    pc \in {"translated", "resolved"} =>
        /\ \A f \in ClaudeFamilies : StartsWith(model, f \o Dash) => translated = f
        /\ (~IsVersionedClaude(model) /\ IsGpt51Codex(model)) => translated = S_gpt51
        /\ (~IsVersionedClaude(model) /\ ~IsGpt51Codex(model) /\ IsGptDashCodex(model))
              => /\ Len(translated) = Len(model) - Len(S_dashCodex)
                 /\ translated = SubSeq(model, 1, Len(translated))
        /\ (~IsVersionedClaude(model) /\ ~IsGpt51Codex(model) /\ ~IsGptDashCodex(model))
              => translated = model

\* "GPT-5.2-Codex" -> "GPT-5.2": the suffix is found in the lower-case form
C10_Witness ==
    /\ pc = "translated"
    /\ translated # model
    /\ model # toLowerCase(model)
    /\ ~IsVersionedClaude(model) /\ ~IsGpt51Codex(model) /\ IsGptDashCodex(model)

(***************************************************************************)
(* C5: the messages returned by truncateMessagesSmart contain every system *)
(* message of the input and the most recent user message of the input,     *)
(* whatever the target.                                                    *)
(***************************************************************************)
Returned(i) ==
    \E j \in 1..Len(truncation.messages) :
        truncation.kept[j] = i /\ truncation.messages[j] = messages[i]

IsLastUser(i) ==
    messages[i].role = "user" /\ \A n \in i+1..Len(messages) : messages[n].role # "user"

C5_SystemAndLastUserSurvive ==
    pc = "fitted" =>
        \A i \in 1..Len(messages) :
            (messages[i].role = "system" \/ IsLastUser(i)) => Returned(i)

\* the protected messages alone cost more than the target, and messages were removed
C5_Witness ==
    /\ pc = "fitted"
    /\ truncation.removedCount > 0
    /\ truncation.truncatedTokens > TargetOf(model, targetTokens)
    /\ \E i, k \in 1..Len(messages) : messages[i].role = "system" /\ IsLastUser(k)

(***************************************************************************)
(* C6 as stated: the returned list is a subsequence of the input list,     *)
(* every returned message being a message of the input.                    *)
(***************************************************************************)
RECURSIVE IsSubsequence(_, _)
IsSubsequence(out, in) ==
    IF out = <<>> THEN TRUE
    ELSE IF in = <<>> THEN FALSE
    ELSE IF Head(out) = Head(in) THEN IsSubsequence(Tail(out), Tail(in))
    ELSE IsSubsequence(out, Tail(in))

C6_SubsequenceOfInput ==
    pc = "fitted" => IsSubsequence(truncation.messages, messages)

(***************************************************************************)
(* C6 amended: the returned messages stand at strictly increasing input    *)
(* indices, and each is the input message at its index or, for a tool      *)
(* response estimated above 8000 tokens, the compressed form of it.        *)
(***************************************************************************)
C6_SubsequenceUpToCompression ==
    pc = "fitted" =>
        /\ Len(truncation.kept) = Len(truncation.messages)
        /\ \A j \in 1..Len(truncation.kept) :
              /\ truncation.kept[j] \in 1..Len(messages)
              /\ j > 1 => truncation.kept[j-1] < truncation.kept[j]
              /\ LET in == messages[truncation.kept[j]]
                 IN  \/ truncation.messages[j] = in
                     \/ /\ in.role = "tool"
                        /\ estimateMessageTokens(in) > CompressCeiling
                        /\ truncation.messages[j] = compressToolResult(in)

\* a compressed tool response is returned and an earlier message was removed
C6_Witness ==
    /\ pc = "fitted"
    /\ truncation.compressedCount > 0
    /\ truncation.removedCount > 0
    /\ \E j \in 2..Len(truncation.messages) :
          /\ truncation.messages[j].content.kind = "truncated"
          /\ truncation.kept[j] > j

(***************************************************************************)
(* C7: when the summed estimate of the input is within the target, the     *)
(* input is returned as it is, with removedCount = 0, compressedCount = 0  *)
(* and truncatedTokens = originalTokens, also when a tool response exceeds *)
(* the compression ceiling.                                                *)
(***************************************************************************)
TotalEstimate(msgs) == SumSeq([i \in 1..Len(msgs) |-> estimateMessageTokens(msgs[i])])

C7_WithinTargetUnchanged ==
    (pc = "fitted" /\ TotalEstimate(messages) <= TargetOf(model, targetTokens)) =>
        /\ truncation.messages = messages
        /\ truncation.removedCount = 0
        /\ truncation.compressedCount = 0
        /\ truncation.originalTokens = TotalEstimate(messages)
        /\ truncation.truncatedTokens = truncation.originalTokens

C7_Witness ==
    /\ pc = "fitted"
    /\ TotalEstimate(messages) <= TargetOf(model, targetTokens)
    /\ \E i \in 1..Len(messages) :
          messages[i].role = "tool" /\ estimateMessageTokens(messages[i]) > CompressCeiling
    /\ truncation.messages = messages

(***************************************************************************)
(* C8: when the cost after compression of all system messages, the most    *)
(* recent tool-call chain (the run of tool-context messages that ends at   *)
(* the most recent one) and the most recent user message is within the     *)
(* target, truncatedTokens is within the target, and truncatedTokens is    *)
(* the sum of the estimates of the returned messages.                      *)
(***************************************************************************)
IsToolContext(msg) == msg.role = "tool" \/ HasToolCalls(msg)

RecentToolChain(msgs) ==
    LET toolContext == {i \in 1..Len(msgs) : IsToolContext(msgs[i])}
    IN  {i \in toolContext :
            \A n \in i..Len(msgs) :
                (\E k \in toolContext : n <= k) => n \in toolContext}

ProtectedSet(msgs) ==
    {i \in 1..Len(msgs) : msgs[i].role = "system" \/ IsLastUser(i)}
    \cup RecentToolChain(msgs)

ProtectedCost(msgs) == ItemTokens(Compressed(msgs), ProtectedSet(msgs))

C8_WithinTargetWhenPossible ==
    pc = "fitted" =>
        /\ truncation.truncatedTokens = TotalEstimate(truncation.messages)
        /\ ProtectedCost(messages) <= TargetOf(model, targetTokens)
              => truncation.truncatedTokens <= TargetOf(model, targetTokens)

\* the selection pass ran: the conversation is over the target after compression
SelectionRan ==
    ItemTokens(Compressed(messages), 1..Len(messages)) > TargetOf(model, targetTokens)

\* C13: when the selection pass runs, the tool-context messages it returns
\* are exactly the contiguous run of tool-context messages that ends at the
\* most recent tool-context message: none that a user, plain assistant or
\* system message separates from that run is kept.
C13_ChainIsContiguousRun ==
    (pc = "fitted" /\ SelectionRan) =>
        {i \in Range(truncation.kept) : IsToolContext(messages[i])}
            = RecentToolChain(messages)

Occurrences(msgs, m) == Cardinality({i \in 1..Len(msgs) : msgs[i] = m})

CallIds(msgs) ==
    UNION {{msgs[i].tool_calls[j].id : j \in 1..Len(msgs[i].tool_calls)} :
              i \in 1..Len(msgs)}

\* C14: the output of fixToolCallsMessages holds a tool message of the input
\* no more often than the input does, also when several calls carry its id,
\* and holds no tool message of the input whose id is the id of no call.
C14_ResponsesConsumedOnce ==
    pc \in {"repaired", "repairedRaw"} =>
        \A k \in 1..Len(fixIn) :
            fixIn[k].role = "tool" =>
                /\ Occurrences(fixed, fixIn[k]) <= Occurrences(fixIn, fixIn[k])
                /\ fixIn[k].tool_call_id \notin CallIds(fixIn)
                      => Occurrences(fixed, fixIn[k]) = 0

(***************************************************************************)
(* The relay: handleCompletion from the upstream call to the reply.         *)
(***************************************************************************)

\* longest fragment sequence a streaming response yields
MaxChunks == 3

Fragments == {"f", "g"}

\* a completion object has its own `choices`; an event stream has none
Completion(b) == [choices |-> <<b>>, chunks |-> <<>>, end |-> "done"]

EventStream(cs, e) == [choices |-> <<>>, chunks |-> cs, end |-> e]

Responses ==
    {Completion(b) : b \in {"c1", "c2"}}
        \cup {EventStream(cs, e) : cs \in SeqsUpTo(Fragments, MaxChunks),
                                   e \in {"done", "error"}}

isNonStreaming(resp) == resp.choices # <<>>

InitRelay ==
    /\ pc = "upstream"
    /\ response \in Responses
    /\ requested = 0 /\ received = <<>> /\ writing = <<>>
    /\ written = <<>> /\ replied = <<>>
    /\ messages = <<>> /\ sanitized = <<>> /\ fixIn = <<>> /\ fixed = <<>>
    /\ refixed = <<>> /\ model = <<>> /\ translated = <<>>
    /\ limitArg = <<>> /\ contextLimit = 0
    /\ targetTokens = NoTarget /\ truncation = NoResult
    /\ NoPipeline

relayRest == <<messages, sanitized, fixIn, fixed, refixed, model, translated,
               limitArg, contextLimit, targetTokens, truncation, pipeVars>>

\* await createChatCompletions(payload) resolves
UpstreamResponds ==
    /\ pc = "upstream"
    /\ pc' = "responded"
    /\ UNCHANGED <<relayVars, relayRest>>

\* return c.json(response)
RelayCompletion ==
    /\ pc = "responded"
    /\ isNonStreaming(response)
    /\ replied' = Append(replied, response)
    /\ pc' = "done"
    /\ UNCHANGED <<response, requested, received, writing, written, relayRest>>

\* return streamSSE(c, async (stream) => ...): the callback starts
StartStream ==
    /\ pc = "responded"
    /\ ~isNonStreaming(response)
    /\ pc' = "loop"
    /\ UNCHANGED <<relayVars, relayRest>>

\* for await: the loop asks the response for its next fragment
RequestNext ==
    /\ pc = "loop"
    /\ requested' = requested + 1
    /\ pc' = "awaitChunk"
    /\ UNCHANGED <<response, received, writing, written, replied, relayRest>>

\* the response yields its next fragment
UpstreamYields ==
    /\ pc = "awaitChunk"
    /\ Len(received) < Len(response.chunks)
    /\ received' = Append(received, response.chunks[Len(received) + 1])
    /\ pc' = "gotChunk"
    /\ UNCHANGED <<response, requested, writing, written, replied, relayRest>>

\* the response is exhausted: the loop and the callback end
UpstreamEnds ==
    /\ pc = "awaitChunk"
    /\ Len(received) = Len(response.chunks)
    /\ response.end = "done"
    /\ pc' = "done"
    /\ UNCHANGED <<relayVars, relayRest>>

\* the response rejects: the exception leaves the loop
UpstreamFails ==
    /\ pc = "awaitChunk"
    /\ Len(received) = Len(response.chunks)
    /\ response.end = "error"
    /\ pc' = "failed"
    /\ UNCHANGED <<relayVars, relayRest>>

\* the loop goes on without waiting for the write it started
CallWriteSSE_NoAwait ==
    /\ pc = "gotChunk"
    /\ writing' = Append(writing, received[Len(received)])
    /\ pc' = "loop"
    /\ UNCHANGED <<response, requested, received, written, replied, relayRest>>

\* await stream.writeSSE(chunk): the write starts, the loop waits for it
CallWriteSSE ==
    /\ pc = "gotChunk"
    /\ writing' = Append(writing, received[Len(received)])
    /\ pc' = "awaitWrite"
    /\ UNCHANGED <<response, requested, received, written, replied, relayRest>>

\* the write completes and the loop resumes
WriteCompletes ==
    /\ writing # <<>>
    /\ written' = Append(written, Head(writing))
    /\ writing' = Tail(writing)
    /\ pc' = IF pc = "awaitWrite" THEN "loop" ELSE pc
    /\ UNCHANGED <<response, requested, received, replied, relayRest>>

NextRelay ==
    \/ UpstreamResponds
    \/ RelayCompletion
    \/ StartStream
    \/ RequestNext
    \/ UpstreamYields
    \/ UpstreamEnds
    \/ UpstreamFails
    \/ CallWriteSSE
    \/ WriteCompletes

\* the event loop runs every continuation that is ready, and a response that
\* has more to deliver delivers it
SpecRelay == InitRelay /\ [][NextRelay]_vars /\ WF_vars(NextRelay)

IsPrefix(s, t) == Len(s) <= Len(t) /\ s = SubSeq(t, 1, Len(s))

\* C11: a response without `choices` is forwarded fragment by fragment in
\* arrival order: what has been written is always a prefix of what has been
\* received, at most one fragment is received and not yet written, the next
\* fragment is requested only when every earlier one is written, and a
\* response that ends normally is eventually forwarded in full and the relay
\* stops; a response with `choices` is sent exactly once, whole.
C11_RelayInOrder ==
    /\ [](~isNonStreaming(response) =>
            /\ IsPrefix(written \o writing, received)
            /\ IsPrefix(received, response.chunks)
            /\ Len(received) <= Len(written) + 1
            /\ requested <= Len(written) + 1
            /\ replied = <<>>
            /\ pc = "done" => written = response.chunks)
    /\ [](isNonStreaming(response) =>
            /\ requested = 0 /\ written = <<>> /\ writing = <<>>
            /\ IsPrefix(replied, <<response>>)
            /\ pc = "done" => replied = <<response>>)
    /\ (~isNonStreaming(response) /\ response.end = "done")
            ~> (pc = "done" /\ written = response.chunks)
    /\ isNonStreaming(response) ~> (pc = "done" /\ replied = <<response>>)

\* a stream of three fragments, not all alike, forwarded in full
C11_Witness ==
    /\ pc = "done"
    /\ ~isNonStreaming(response)
    /\ Len(written) = 3
    /\ written[1] # written[2]
    /\ written = response.chunks

(***************************************************************************)
(* The pipeline: handleCompletion from the request to the upstream call.   *)
(***************************************************************************)

\* needsTruncation: the loop returns as soon as the running total passes the target
RECURSIVE OverTarget(_, _, _)
OverTarget(msgs, totalTokens, target) ==
    IF msgs = <<>> THEN FALSE
    ELSE LET total == totalTokens + estimateMessageTokens(Head(msgs))
         IN  IF total > target THEN TRUE ELSE OverTarget(Tail(msgs), total, target)

needsTruncation(msgs, m) == OverTarget(msgs, 0, getDynamicTargetLimit(m))

S_gpt4Codex == <<"g","p","t","-","4","-","c","o","d","e","x">>

S_gpt4_51Codex == <<"g","p","t","-","4","-","5",".","1","-","c","o","d","e","x">>

\* "gpt-4-codex" becomes "gpt-4" (8192 tokens), "gpt-4-5.1-codex" becomes
\* "gpt-5.1" (128000 tokens)
PipeModels == {S_gpt4Codex, S_gpt4_51Codex}

\* calls "a!" (sanitized to "a") and "!" (replaced by a generated id)
PipeCalls == {ToolCall(IdABang, FnF, 7), ToolCall(IdBang, FnF, 7)}

\* messages with k tool calls; 20000 characters are 5004 tokens,
\* 40000 characters 10004
PipeMsgs(k) ==
    IF k = 0
    THEN {Msg("system", PlainText(8), <<>>, <<>>),
          Msg("user", PlainText(8), <<>>, <<>>),
          Msg("user", PlainText(20000), <<>>, <<>>),
          Msg("assistant", PlainText(40), <<>>, <<>>),
          Msg("tool", PlainText(40000), <<>>, IdA)}
    ELSE {Msg("assistant", PlainText(0), tcs, <<>>) : tcs \in [1..k -> PipeCalls]}

RECURSIVE PipeConversationsOf(_)
PipeConversationsOf(profile) ==
    IF profile = <<>> THEN {<<>>}
    ELSE LET rests == PipeConversationsOf(Tail(profile))
         IN  {<<m>> \o rest : m \in PipeMsgs(Head(profile)), rest \in rests}

\* the request body has been read (handler.ts:423)
InitPipe ==
    /\ pc = "request"
    /\ \E n \in 0..MaxMsgs : \E profile \in CallProfiles(n, MaxCalls) :
          messages \in PipeConversationsOf(profile)
    /\ model \in PipeModels
    /\ translated = <<>> /\ sanitized = NoResult /\ fixIn = NoResult
    /\ fixed = NoResult /\ refixed = NoResult
    /\ limitArg = <<>> /\ contextLimit = 0
    /\ targetTokens = NoTarget /\ truncation = NoResult
    /\ payload = [model |-> model, messages |-> messages]
    /\ trace = <<>>
    /\ NoRelay

\* const translatedModel = translateModelName(payload.model)
PipeTranslate ==
    /\ pc = "request"
    /\ translated' = translateModelName(payload.model)
    /\ trace' = Append(trace, "translateModelName")
    /\ pc' = "translated"
    /\ UNCHANGED <<messages, sanitized, fixIn, fixed, refixed, model, limitArg,
                   contextLimit, targetTokens, truncation, payload, relayVars>>

\* sanitizeToolIdsInMessages(payload.messages)
PipeSanitize ==
    /\ pc = "translated"
    /\ \E fb \in [FallbackSites(payload.messages) -> FallbackIds] :
          sanitized' = sanitizeToolIdsInMessages(payload.messages, fb)
    /\ trace' = Append(trace, "sanitizeToolIdsInMessages")
    /\ pc' = "sanitized"
    /\ UNCHANGED <<messages, fixIn, fixed, refixed, model, translated, limitArg,
                   contextLimit, targetTokens, truncation, payload, relayVars>>

\* let processedMessages = fixToolCallsMessages(...)
PipeRepair ==
    /\ pc = "sanitized"
    /\ fixIn' = sanitized
    /\ fixed' = fixToolCallsMessages(sanitized)
    /\ trace' = Append(trace, "fixToolCallsMessages")
    /\ pc' = "repaired"
    /\ UNCHANGED <<messages, sanitized, refixed, model, translated, limitArg,
                   contextLimit, targetTokens, truncation, payload, relayVars>>

\* variant: needsTruncation(processedMessages, originalModel)
BudgetModel_Original(originalModel, translatedModel) == originalModel

\* the name the budget is resolved for
BudgetModel(originalModel, translatedModel) == translatedModel

\* if (needsTruncation(processedMessages, translatedModel)) is taken:
\* truncateMessagesSmart(processedMessages, translatedModel)
PipeTruncate ==
    /\ pc = "repaired"
    /\ LET m == BudgetModel(model, translated)
       IN  /\ needsTruncation(fixed, m)
           /\ limitArg' = m
           /\ contextLimit' = getModelContextLimit(m)
           /\ truncation' = truncateMessagesSmart(fixed, m, NoTarget)
    /\ trace' = trace \o <<"needsTruncation", "truncateMessagesSmart">>
    /\ pc' = "budgeted"
    /\ UNCHANGED <<messages, sanitized, fixIn, fixed, refixed, model, translated,
                   targetTokens, payload, relayVars>>

\* the branch is not taken
PipeNoTruncate ==
    /\ pc = "repaired"
    /\ LET m == BudgetModel(model, translated)
       IN  /\ ~needsTruncation(fixed, m)
           /\ limitArg' = m
           /\ contextLimit' = getModelContextLimit(m)
    /\ trace' = Append(trace, "needsTruncation")
    /\ pc' = "budgeted"
    /\ UNCHANGED <<messages, sanitized, fixIn, fixed, refixed, model, translated,
                   targetTokens, truncation, payload, relayVars>>

Fitted == \E k \in 1..Len(trace) : trace[k] = "truncateMessagesSmart"

\* payload = {...payload, model: translatedModel, messages: processedMessages}
PipeBuildPayload ==
    /\ pc = "budgeted"
    /\ payload' = [model |-> translated,
                   messages |-> IF Fitted THEN truncation.messages ELSE fixed]
    /\ pc' = "payload"
    /\ UNCHANGED <<messages, sanitized, fixIn, fixed, refixed, model, translated,
                   limitArg, contextLimit, targetTokens, truncation, trace, relayVars>>

\* the token count, the approval and the max_tokens default leave model and
\* messages alone; then createChatCompletions(payload)
PipeCallUpstream ==
    /\ pc = "payload"
    /\ trace' = Append(trace, "createChatCompletions")
    /\ pc' = "called"
    /\ UNCHANGED <<messages, sanitized, fixIn, fixed, refixed, model, translated,
                   limitArg, contextLimit, targetTokens, truncation, payload, relayVars>>

NextPipe ==
    \/ PipeTranslate
    \/ PipeSanitize
    \/ PipeRepair
    \/ PipeTruncate
    \/ PipeNoTruncate
    \/ PipeBuildPayload
    \/ PipeCallUpstream

SpecPipe == InitPipe /\ [][NextPipe]_vars

\* the block of an assistant message with calls: the message and the
\* responses that follow it, one per call
BlockOf(msgs, a) == a..(a + Len(msgs[a].tool_calls))

OrderedBlocks(out) ==
    /\ \A a \in 1..Len(out) :
          HasToolCalls(out[a]) =>
              /\ a + Len(out[a].tool_calls) <= Len(out)
              /\ \A j \in 1..Len(out[a].tool_calls) :
                    /\ out[a+j].role = "tool"
                    /\ out[a+j].tool_call_id = out[a].tool_calls[j].id
    /\ \A i \in 1..Len(out) :
          out[i].role = "tool" =>
              \E a \in 1..(i-1) :
                  /\ HasToolCalls(out[a])
                  /\ i \in BlockOf(out, a)
                  /\ out[i].tool_call_id = out[a].tool_calls[i-a].id

\* C12: in the payload handed upstream every tool message sits in the block
\* of responses right after an assistant message that has a call with its
\* id, every assistant message with N calls is followed by its N responses
\* in call order, and when the conversation was truncated each block of the
\* repaired conversation was kept whole or dropped whole.
C12_OrderingSurvivesPipeline ==
    pc \in {"payload", "called"} =>
        /\ OrderedBlocks(payload.messages)
        /\ Fitted =>
              \A a \in 1..Len(fixed) :
                  HasToolCalls(fixed[a]) =>
                      \/ BlockOf(fixed, a) \subseteq Range(truncation.kept)
                      \/ BlockOf(fixed, a) \cap Range(truncation.kept) = {}

\* a truncated conversation that lost one block and kept another
C12_Witness ==
    /\ pc = "called"
    /\ Fitted
    /\ \E a, b \in 1..Len(fixed) :
          /\ HasToolCalls(fixed[a]) /\ HasToolCalls(fixed[b])
          /\ BlockOf(fixed, a) \cap Range(truncation.kept) = {}
          /\ BlockOf(fixed, b) \subseteq Range(truncation.kept)

CalledBefore(f, k) == \E j \in 1..(k-1) : trace[j] = f

\* C15: in handleCompletion the ids are sanitized before the conversation is
\* repaired, and the repairer gets the sanitized conversation; the model
\* name is translated before the budget is looked at, and the budget is that
\* of the translated name; truncateMessagesSmart is called only when the
\* estimate of the repaired conversation is over that budget; and
\* createChatCompletions is called last, with the translated model and with
\* the repaired messages, truncated if the truncation was called.
C15_PipelineOrder ==
    \A k \in 1..Len(trace) :
        /\ trace[k] = "fixToolCallsMessages" =>
              /\ CalledBefore("sanitizeToolIdsInMessages", k)
              /\ fixIn = sanitized
              /\ fixed = fixToolCallsMessages(sanitized)
        /\ trace[k] \in {"needsTruncation", "truncateMessagesSmart"} =>
              /\ CalledBefore("translateModelName", k)
              /\ CalledBefore("fixToolCallsMessages", k)
              /\ limitArg = translateModelName(model)
              /\ contextLimit = getModelContextLimit(translateModelName(model))
        /\ trace[k] = "truncateMessagesSmart" =>
              /\ CalledBefore("needsTruncation", k)
              /\ TotalEstimate(fixed) > getDynamicTargetLimit(translateModelName(model))
              /\ truncation = truncateMessagesSmart(fixed, translateModelName(model), NoTarget)
        /\ trace[k] = "createChatCompletions" =>
              /\ k = Len(trace)
              /\ CalledBefore("needsTruncation", k)
              /\ payload.model = translateModelName(model)
              /\ payload.messages = IF Fitted THEN truncation.messages ELSE fixed

\* a request whose model name is translated and whose conversation is
\* truncated has reached the upstream call
C15_Witness ==
    /\ pc = "called"
    /\ Fitted
    /\ payload.model # model
    /\ Len(payload.messages) < Len(fixed)
    /\ sanitized # messages

====
